---- MODULE Spec2Model ----
(***************************************************************************)
(* Model of the credentials crate: the Vault client (src/src/vault.rs),    *)
(* which fetches secrets over HTTP and caches them per path, and the       *)
(* chained client (src/src/chained.rs), which tries backends in order.     *)
(***************************************************************************)
EXTENDS Integers, Sequences, FiniteSets, TLC

(* ------------------------------------------------------------------ *)
(* Bounds of the model                                                 *)
(* ------------------------------------------------------------------ *)

\* How many times get_secret may be invoked for one path.
MaxFetches == 2

\* How many backends the chained client may hold.
MaxBackends == 3

(* ------------------------------------------------------------------ *)
(* Vault client: values                                                *)
(* ------------------------------------------------------------------ *)

Paths == {"secret/foo", "secret/bar"}

Keys == {"username", "password"}

CredNames == {"FOO_USERNAME", "FOO_PASSWORD", "BAR_USERNAME", "NOSUCHVAR"}

\* Option::None, for lookups that find nothing.
None == [some |-> FALSE]

Some(x) == [some |-> TRUE, v |-> x]

\* Result::Ok and Result::Err.  A panic (an unwrap of None) is kept apart
\* from both: it is not a value handed to the caller.
Ok(x) == [tag |-> "Ok", v |-> x, e |-> <<>>]

Err(e) == [tag |-> "Err", v |-> "", e |-> e]

Panic == [tag |-> "Panic", v |-> "", e |-> <<>>]

IsOk(r) == r.tag = "Ok"

IsErr(r) == r.tag = "Err"

\* Location::Keyed(path, key)
Keyed(path, key) == [path |-> path, key |-> key]

\* The Secretfile handed to Client::new: credential name -> location.
\* Two credentials live under the same path, as a username/password pair.
Secretfile ==
  [c \in {"FOO_USERNAME", "FOO_PASSWORD", "BAR_USERNAME"} |->
     CASE c = "FOO_USERNAME" -> Keyed("secret/foo", "username")
       [] c = "FOO_PASSWORD" -> Keyed("secret/foo", "password")
       [] c = "BAR_USERNAME" -> Keyed("secret/bar", "username")]

\* Mutant: a name with no entry is looked up under a default location.
SecretfileGetFallback(credential) ==
  IF credential \in DOMAIN Secretfile THEN Some(Secretfile[credential])
  ELSE Some(Keyed("secret/foo", "username"))

\* Secretfile::get
SecretfileGet(credential) ==
  IF credential \in DOMAIN Secretfile THEN Some(Secretfile[credential]) ELSE None

\* struct Secret { data, lease_duration }
Secret(data, lease) == [data |-> data, lease_duration |-> lease]

LeaseDuration == 2592000

\* Two generations of a dynamic secret, and a secret that lacks "password".
DataGen1 == [k \in Keys |-> IF k = "username" THEN "u1" ELSE "p1"]

DataGen2 == [k \in Keys |-> IF k = "username" THEN "u2" ELSE "p2"]

DataNoPassword == [k \in {"username"} |-> "bar"]

\* Response bodies.  A body is either JSON text holding an object (json =
\* TRUE, obj = the object's fields) or text that is not JSON at all.
JsonBody(obj) == [json |-> TRUE, obj |-> obj]

GarbageBody == [json |-> FALSE, obj |-> <<>>]

SecretBody(data) == JsonBody([data |-> data, lease_duration |-> LeaseDuration])

\* A secret with a field the Secret struct does not declare.
SecretBodyExtra(data) ==
  JsonBody([data |-> data, lease_duration |-> LeaseDuration, lease_id |-> "abc"])

\* What Vault sends with an error status.
ErrorsBody == JsonBody([errors |-> <<"permission denied">>])

Response(status, body) == [kind |-> "response", status |-> status, body |-> body]

\* What the network gives for one request: the connection fails, the body
\* cannot be read, or a response with a status and a body arrives.  A
\* server is free to send any body with any status.
Responses ==
  { [kind |-> "send_err", status |-> 0, body |-> GarbageBody],
    [kind |-> "read_err", status |-> 200, body |-> GarbageBody] }
  \cup { Response(200, SecretBody(DataGen1)), Response(200, SecretBodyExtra(DataGen2)),
         Response(200, SecretBody(DataNoPassword)), Response(200, GarbageBody) }
  \cup { Response(403, ErrorsBody), Response(403, SecretBody(DataGen1)) }

\* json::decode into Secret: the text must be JSON and the object must
\* hold both declared fields; other fields are dropped.
JsonDecode(body) ==
  IF ~body.json THEN Err(<<"json::DecoderError", "ParseError">>)
  ELSE IF "data" \notin DOMAIN body.obj
    THEN Err(<<"json::DecoderError", "MissingFieldError", "data">>)
  ELSE IF "lease_duration" \notin DOMAIN body.obj
    THEN Err(<<"json::DecoderError", "MissingFieldError", "lease_duration">>)
  ELSE Ok(Secret(body.obj.data, body.obj.lease_duration))

\* Client::get_secret, given what the network answers to the request.
\* The status of the response is not looked at.
GetSecretOf(resp) ==
  IF resp.kind = "send_err" THEN Err(<<"hyper::Error">>)
  ELSE IF resp.kind = "read_err" THEN Err(<<"io::Error">>)
  ELSE JsonDecode(resp.body)

\* format!("No Secretfile entry for {}", credential)
NoEntryMsg(credential) == <<"No Secretfile entry for ", credential>>

\* format!("No key {} in secret {}", key, path)
NoKeyMsg(key, path) == <<"No key ", key, " in secret ", path>>

\* Mutant: a key the secret lacks reads as the empty string.
DataGetDefault(secret, key, path) ==
  IF key \in DOMAIN secret.data THEN Ok(secret.data[key]) ELSE Ok("")

\* Mutant: the value of "username" is returned whatever the key.
DataGetFirst(secret, key, path) ==
  IF "username" \in DOMAIN secret.data THEN Ok(secret.data["username"])
  ELSE Err(NoKeyMsg(key, path))

\* secret.data.get(key).ok_or_else(..).map(|v| v.clone())
DataGet(secret, key, path) ==
  IF key \in DOMAIN secret.data THEN Ok(secret.data[key])
  ELSE Err(NoKeyMsg(key, path))

\* Mutant: the cache is taken to hold every path.
NeedsFetchNever(cache, path) == FALSE

\* Mutant: the cache is not consulted before fetching.
NeedsFetchAlways(cache, path) == TRUE

\* if !self.secrets.contains_key(path): must get fetch the path?
NeedsFetch(cache, path) == path \notin DOMAIN cache

\* Mutant: the fetched secret is not put in the cache.
CacheInsertNothing(cache, path, secret) == cache

\* Mutant: the cache keeps only the secret fetched last.
CacheInsertEvicting(cache, path, secret) == [p \in {path} |-> secret]

\* self.secrets.insert(path.to_owned(), secret)
CacheInsert(cache, path, secret) ==
  [p \in DOMAIN cache \cup {path} |-> IF p = path THEN secret ELSE cache[p]]

\* self.secrets.get(path).unwrap(), then the lookup of the key
CacheRead(cache, path, key) ==
  IF path \in DOMAIN cache THEN DataGet(cache[path], key, path) ELSE Panic

(* ------------------------------------------------------------------ *)
(* State                                                               *)
(* ------------------------------------------------------------------ *)

VARIABLES
  secrets,    \* vault Client.secrets: path -> Secret, for the cached paths
  remote,     \* what the network would answer now to a GET of each path
  fetches,    \* per path, how many times get_secret was invoked
  fetched,    \* per path, the successful fetches in order: the secret that
              \* get_secret returned, the status of the response it came
              \* from and the credential the get was for
  call,       \* the last get: its credential, its outcome, whether it invoked
              \* get_secret (and the response), whether the path was cached
              \* before it (hit) and whether it reached the read of the cache
  backends,   \* chained Client.backends
  request,    \* the last var/file call on the chained client
  outcomes,   \* what each backend answers (or would answer) to that call
  invoked,    \* the backend operations that call invoked, in order
  result,     \* what that call returned
  built       \* the call of Client::default, if one was made: what the
              \* constructors it invoked returned (Panic for one it did not
              \* invoke), whether it found Vault enabled and what it returned

vaultVars == <<secrets, remote, fetches, fetched, call>>

chainVars == <<backends, request, outcomes, invoked, result, built>>

vars == <<secrets, remote, fetches, fetched, call,
          backends, request, outcomes, invoked, result, built>>

NoCall == [credential |-> "", result |-> Panic, fetched |-> FALSE,
           resp |-> None, hit |-> FALSE, read |-> FALSE]

NoRequest == [op |-> "", arg |-> ""]

NotBuilt == [called |-> FALSE, env |-> Panic, enabled |-> FALSE, vault |-> Panic,
             result |-> [tag |-> "", client |-> <<>>, e |-> <<>>]]

\* Client::new of both clients
Init ==
  /\ secrets = <<>>
  /\ remote = [p \in Paths |-> Response(200, SecretBody(DataGen1))]
  /\ fetches = [p \in Paths |-> 0]
  /\ fetched = [p \in Paths |-> <<>>]
  /\ call = NoCall
  /\ backends = <<>>
  /\ request = NoRequest
  /\ outcomes = <<>>
  /\ invoked = <<>>
  /\ result = Panic
  /\ built = NotBuilt

(* ------------------------------------------------------------------ *)
(* Vault client: operations                                            *)
(* ------------------------------------------------------------------ *)

\* The remote store changes what it would answer for a path.
RemoteChange(path, resp) ==
  /\ remote[path] # resp
  /\ remote' = [remote EXCEPT ![path] = resp]
  /\ UNCHANGED <<secrets, fetches, fetched, call>>
  /\ UNCHANGED chainVars

\* Backend::get for the vault Client, for a credential with no entry.
GetNoEntry(credential) ==
  /\ SecretfileGet(credential) = None
  /\ call' = [credential |-> credential, result |-> Err(NoEntryMsg(credential)),
              fetched |-> FALSE, resp |-> None, hit |-> FALSE, read |-> FALSE]
  /\ UNCHANGED <<secrets, remote, fetches, fetched>>
  /\ UNCHANGED chainVars

\* Backend::get, Keyed location, path already cached.
GetCached(credential) ==
  /\ SecretfileGet(credential) # None
  /\ LET loc == SecretfileGet(credential).v IN
       /\ ~NeedsFetch(secrets, loc.path)
       /\ call' = [credential |-> credential,
                   result |-> CacheRead(secrets, loc.path, loc.key),
                   fetched |-> FALSE, resp |-> None, hit |-> TRUE, read |-> TRUE]
  /\ UNCHANGED <<secrets, remote, fetches, fetched>>
  /\ UNCHANGED chainVars

\* Mutant: a fetch that fails is remembered as an empty secret.
GetFetchCachesFailure(credential) ==
  /\ SecretfileGet(credential) # None
  /\ LET loc == SecretfileGet(credential).v
         resp == remote[loc.path]
         got == GetSecretOf(resp)
         secret == IF IsOk(got) THEN got.v ELSE Secret(<<>>, 0)
     IN
       /\ NeedsFetch(secrets, loc.path)
       /\ fetches[loc.path] < MaxFetches
       /\ fetches' = [fetches EXCEPT ![loc.path] = @ + 1]
       /\ secrets' = CacheInsert(secrets, loc.path, secret)
       /\ fetched' = [fetched EXCEPT ![loc.path] =
                       Append(@, [secret |-> secret, status |-> resp.status,
                                  by |-> credential])]
       /\ call' = [credential |-> credential,
                   result |-> IF IsOk(got)
                                THEN CacheRead(secrets', loc.path, loc.key) ELSE got,
                   fetched |-> TRUE, resp |-> Some(resp), hit |-> FALSE,
                   read |-> IsOk(got)]
  /\ UNCHANGED remote
  /\ UNCHANGED chainVars

\* Backend::get, Keyed location, path not cached: get_secret is invoked,
\* and on success its secret is cached and then read.
GetFetch(credential) ==
  /\ SecretfileGet(credential) # None
  /\ LET loc == SecretfileGet(credential).v
         resp == remote[loc.path]
         got == GetSecretOf(resp)
     IN
       /\ NeedsFetch(secrets, loc.path)
       /\ fetches[loc.path] < MaxFetches
       /\ fetches' = [fetches EXCEPT ![loc.path] = @ + 1]
       /\ IF IsOk(got)
            THEN /\ secrets' = CacheInsert(secrets, loc.path, got.v)
                 /\ fetched' = [fetched EXCEPT ![loc.path] =
                                 Append(@, [secret |-> got.v, status |-> resp.status,
                                            by |-> credential])]
                 /\ call' = [credential |-> credential,
                             result |-> CacheRead(secrets', loc.path, loc.key),
                             fetched |-> TRUE, resp |-> Some(resp), hit |-> FALSE,
                             read |-> TRUE]
            ELSE /\ call' = [credential |-> credential, result |-> got,
                             fetched |-> TRUE, resp |-> Some(resp), hit |-> FALSE,
                             read |-> FALSE]
                 /\ UNCHANGED <<secrets, fetched>>
  /\ UNCHANGED remote
  /\ UNCHANGED chainVars

VaultNext ==
  \/ \E p \in Paths, r \in Responses : RemoteChange(p, r)
  \/ \E c \in CredNames : GetNoEntry(c)
  \/ \E c \in CredNames : GetCached(c)
  \/ \E c \in CredNames : GetFetch(c)

VaultSpec == Init /\ [][VaultNext]_vars

(* ------------------------------------------------------------------ *)
(* Chained client                                                      *)
(* ------------------------------------------------------------------ *)

\* The backends that are put in a chain: envvar::Client, vault::Client and
\* the tests' DummyClient.
BackendKinds == {"env", "vault", "dummy"}

VarArgs == {"FOO_USERNAME", "DUMMY", "NOSUCHVAR"}

FileArgs == {"dummy.txt", "nosuchfile.txt"}

\* err("No backend available")
NoBackendAvailable == <<"No backend available">>

\* DummyClient::var
DummyVar(credential) ==
  IF credential = "DUMMY" THEN Ok("dummy") ELSE Err(<<"Credential not supported">>)

\* DummyClient::file
DummyFile(path) ==
  IF path = "dummy.txt" THEN Ok("dummy2") ELSE Err(<<"Credential not supported">>)

\* What a backend of a kind may answer to var or file.  The environment
\* and Vault backends depend on the process environment and the network:
\* each may succeed or fail, with its own error.
BackendAnswers(kind, op, arg) ==
  CASE kind = "dummy" -> {IF op = "var" THEN DummyVar(arg) ELSE DummyFile(arg)}
    [] kind = "env" -> {Ok("user"), Err(<<"environment variable not set: ", arg>>)}
    [] kind = "vault" -> {Ok("bar"), Err(<<"No Secretfile entry for ", arg>>),
                          Err(<<"hyper::Error">>)}

\* All the ways the backends of a list may answer one call.
RECURSIVE AnswersOf(_, _, _)
AnswersOf(list, op, arg) ==
  IF list = <<>> THEN {<<>>}
  ELSE { <<a>> \o rest : a \in BackendAnswers(Head(list), op, arg),
                         rest \in AnswersOf(Tail(list), op, arg) }

\* outs is one of the ways the backends of a list may answer a call.
IsAnswerOf(list, op, arg, outs) ==
  /\ Len(outs) = Len(list)
  /\ \A i \in 1..Len(list) : outs[i] \in BackendAnswers(list[i], op, arg)

Invocation(i, op) == [backend |-> i, op |-> op]

\* Mutant: the loop does not stop at a success.
RECURSIVE VarLoopNoBreak(_, _, _, _)
VarLoopNoBreak(i, n, outs, st) ==
  IF i > n THEN st
  ELSE VarLoopNoBreak(i + 1, n, outs,
         [result |-> outs[i], invoked |-> Append(st.invoked, Invocation(i, "var"))])

\* Mutant: the loop stops after the first backend, success or not.
VarLoopStopAtFirst(i, n, outs, st) ==
  IF i > n THEN st
  ELSE [result |-> outs[i], invoked |-> Append(st.invoked, Invocation(i, "var"))]

\* Mutant: an error does not replace an error recorded from a backend.
RECURSIVE VarLoopFirstError(_, _, _, _)
VarLoopFirstError(i, n, outs, st) ==
  IF i > n THEN st
  ELSE LET st2 == [result |-> IF IsOk(outs[i]) \/ st.invoked = <<>>
                                THEN outs[i] ELSE st.result,
                   invoked |-> Append(st.invoked, Invocation(i, "var"))]
       IN IF IsOk(st2.result) THEN st2 ELSE VarLoopFirstError(i + 1, n, outs, st2)

\* Mutant: only a success is assigned to result.
RECURSIVE FileLoopKeepsPlaceholder(_, _, _, _)
FileLoopKeepsPlaceholder(i, n, outs, st) ==
  IF i > n THEN st
  ELSE LET st2 == [result |-> IF IsOk(outs[i]) THEN outs[i] ELSE st.result,
                   invoked |-> Append(st.invoked, Invocation(i, "file"))]
       IN IF IsOk(st2.result) THEN st2
          ELSE FileLoopKeepsPlaceholder(i + 1, n, outs, st2)

\* Mutant: a backend that fails is tried a second time.
RECURSIVE VarLoopRetry(_, _, _, _)
VarLoopRetry(i, n, outs, st) ==
  IF i > n THEN st
  ELSE LET once == Append(st.invoked, Invocation(i, "var"))
           st2 == [result |-> outs[i],
                   invoked |-> IF IsOk(outs[i]) THEN once
                               ELSE Append(once, Invocation(i, "var"))]
       IN IF IsOk(st2.result) THEN st2 ELSE VarLoopRetry(i + 1, n, outs, st2)

\* Mutant: the loop of file calls var on the backends.
RECURSIVE FileLoopCallsVar(_, _, _, _)
FileLoopCallsVar(i, n, outs, st) ==
  IF i > n THEN st
  ELSE LET st2 == [result |-> outs[i],
                   invoked |-> Append(st.invoked, Invocation(i, "var"))]
       IN IF IsOk(st2.result) THEN st2 ELSE FileLoopCallsVar(i + 1, n, outs, st2)

\* The loop of Client::var from backend i on: st holds `result` and the
\* invocations made so far; outs[i] is what backend i answers when invoked.
RECURSIVE VarLoop(_, _, _, _)
VarLoop(i, n, outs, st) ==
  IF i > n THEN st
  ELSE LET st2 == [result |-> outs[i],
                   invoked |-> Append(st.invoked, Invocation(i, "var"))]
       IN IF IsOk(st2.result) THEN st2 ELSE VarLoop(i + 1, n, outs, st2)

\* The loop of Client::file.
RECURSIVE FileLoop(_, _, _, _)
FileLoop(i, n, outs, st) ==
  IF i > n THEN st
  ELSE LET st2 == [result |-> outs[i],
                   invoked |-> Append(st.invoked, Invocation(i, "file"))]
       IN IF IsOk(st2.result) THEN st2 ELSE FileLoop(i + 1, n, outs, st2)

\* let mut result = Err(err("No backend available"));
LoopStart == [result |-> Err(NoBackendAvailable), invoked |-> <<>>]

\* Client::default did not fail, so there is a client to call.
HasClient == built.result.tag # "Err"

\* Mutant: the backend is put before the existing ones.
AddFront(kind) ==
  /\ HasClient
  /\ Len(backends) < MaxBackends
  /\ backends' = <<kind>> \o backends
  /\ UNCHANGED <<request, outcomes, invoked, result, built>>
  /\ UNCHANGED vaultVars

\* Client::add
Add(kind) ==
  /\ HasClient
  /\ Len(backends) < MaxBackends
  /\ backends' = Append(backends, kind)
  /\ UNCHANGED <<request, outcomes, invoked, result, built>>
  /\ UNCHANGED vaultVars

\* What envvar::Client::default() and vault::Client::default() may return.
EnvDefaults == {Ok("env"), Err(<<"envvar::Client::default failed">>)}

VaultDefaults == {Ok("vault"), Err(<<"vault::Client::default failed">>)}

\* What Client::default returns: a client, given as its list of backends,
\* or an error.
Built(list) == [tag |-> "Ok", client |-> list, e |-> <<>>]

NotBuiltErr(e) == [tag |-> "Err", client |-> <<>>, e |-> e]

\* Mutant: a Vault backend that cannot be constructed is left out.
DefaultOfSkipsVault(envRes, enabled, vaultRes) ==
  IF IsErr(envRes) THEN NotBuiltErr(envRes.e)
  ELSE IF enabled /\ IsOk(vaultRes) THEN Built(<<envRes.v, vaultRes.v>>)
  ELSE Built(<<envRes.v>>)

\* Client::default, given what the constructors of the backends return
\* and whether the Vault backend is enabled.
DefaultOf(envRes, enabled, vaultRes) ==
  IF IsErr(envRes) THEN NotBuiltErr(envRes.e)
  ELSE LET client == Append(<<>>, envRes.v) IN
    IF enabled
      THEN IF IsErr(vaultRes) THEN NotBuiltErr(vaultRes.e)
           ELSE Built(Append(client, vaultRes.v))
      ELSE Built(client)

\* Client::default: the client it returns is the one used from then on.
Default(envRes, enabled, vaultRes) ==
  /\ ~built.called
  /\ backends = <<>>
  /\ request = NoRequest
  /\ LET r == DefaultOf(envRes, enabled, vaultRes) IN
       /\ built' = [called |-> TRUE, env |-> envRes,
                    enabled |-> IsOk(envRes) /\ enabled,
                    vault |-> IF IsOk(envRes) /\ enabled THEN vaultRes ELSE Panic,
                    result |-> r]
       /\ backends' = r.client
  /\ UNCHANGED <<request, outcomes, invoked, result>>
  /\ UNCHANGED vaultVars

\* Backend::var for the chained Client
Var(credential, outs) ==
  /\ HasClient
  /\ IsAnswerOf(backends, "var", credential, outs)
  /\ LET st == VarLoop(1, Len(backends), outs, LoopStart) IN
       /\ result' = st.result
       /\ invoked' = st.invoked
  /\ request' = [op |-> "var", arg |-> credential]
  /\ outcomes' = outs
  /\ UNCHANGED <<backends, built>>
  /\ UNCHANGED vaultVars

\* Backend::file for the chained Client
File(path, outs) ==
  /\ HasClient
  /\ IsAnswerOf(backends, "file", path, outs)
  /\ LET st == FileLoop(1, Len(backends), outs, LoopStart) IN
       /\ result' = st.result
       /\ invoked' = st.invoked
  /\ request' = [op |-> "file", arg |-> path]
  /\ outcomes' = outs
  /\ UNCHANGED <<backends, built>>
  /\ UNCHANGED vaultVars

ChainNext ==
  \/ \E k \in BackendKinds : Add(k)
  \/ \E e \in EnvDefaults, on \in BOOLEAN, v \in VaultDefaults : Default(e, on, v)
  \/ \E c \in VarArgs : \E outs \in AnswersOf(backends, "var", c) : Var(c, outs)
  \/ \E f \in FileArgs : \E outs \in AnswersOf(backends, "file", f) : File(f, outs)

ChainSpec == Init /\ [][ChainNext]_vars

(* ------------------------------------------------------------------ *)
(* Properties of the Vault client                                      *)
(* ------------------------------------------------------------------ *)

\* The location of a credential that has an entry in the Secretfile.
LocOf(credential) == Secretfile[credential]

\* The last get was for a credential with an entry.
CallHasEntry == call.credential \in DOMAIN Secretfile

\* A step that is a call of get (it leaves a new record of the call).
IsGetStep == call' # call

\* The errors get_secret hands on: the spec's FetchFailed.
IsFetchFailed(r) ==
  /\ IsErr(r)
  /\ r.e[1] \in {"hyper::Error", "io::Error", "json::DecoderError"}

\* Is the status of a response a success (2xx)?
IsSuccessStatus(status) == status \div 100 = 2

\* A response to a fetch that the spec counts as a success of the
\* transport: it arrived, its status is 2xx and its body decodes.
IsSuccessResponse(resp) ==
  /\ resp.kind = "response"
  /\ IsSuccessStatus(resp.status)
  /\ resp.body.json
  /\ {"data", "lease_duration"} \subseteq DOMAIN resp.body.obj

\* C1 as stated: for every path, get_secret is invoked at most once over
\* the life of the client, whatever the fetches answer.
C1_AtMostOneFetch == \A p \in Paths : fetches[p] <= 1

\* C1, amended: for every path at most one fetch ever succeeds, the cache
\* holds exactly the secret of that fetch, and once it has succeeded no get
\* fetches the path again; a fetch that failed may be followed by another.
C1_AtMostOneSuccessfulFetch ==
  /\ [](\A p \in Paths :
          /\ Len(fetched[p]) <= 1
          /\ (p \in DOMAIN secrets) <=> (Len(fetched[p]) = 1)
          /\ p \in DOMAIN secrets => secrets[p] = fetched[p][1].secret)
  /\ [][\A p \in Paths :
           fetches'[p] # fetches[p] =>
             /\ p \notin DOMAIN secrets
             /\ fetched[p] = <<>>
             /\ fetches'[p] = fetches[p] + 1]_vars

\* C1 witness: a fetch of secret/foo failed, a second one succeeded, and a
\* later get under the path is served from the cache.
C1_Witness ==
  /\ fetches["secret/foo"] = 2
  /\ Len(fetched["secret/foo"]) = 1
  /\ call.hit /\ ~call.fetched
  /\ CallHasEntry /\ LocOf(call.credential).path = "secret/foo"

\* C2: when a get that returned a value is followed by a get for another
\* key of the same path that returns a value, the second get invokes no
\* fetch, the two gets together invoke at most one (exactly one when the
\* path was not cached before the first), and both values are fields of
\* the one secret ever fetched for the path, whatever the remote store
\* would answer by then.
C2_TwoKeysOneFetch ==
  [][\A c1, c2 \in DOMAIN Secretfile :
       ( /\ LocOf(c1).path = LocOf(c2).path
         /\ LocOf(c1).key # LocOf(c2).key
         /\ call.credential = c1 /\ IsOk(call.result)
         /\ call'.credential = c2 /\ IsOk(call'.result) )
       => LET p == LocOf(c1).path IN
            /\ fetches'[p] = fetches[p]
            /\ ~call'.fetched
            /\ Len(fetched'[p]) = 1
            /\ call.fetched => fetched'[p][1].by = c1
            /\ call.result.v = fetched'[p][1].secret.data[LocOf(c1).key]
            /\ call'.result.v = fetched'[p][1].secret.data[LocOf(c2).key]]_vars

\* C2 witness: FOO_USERNAME fetched secret/foo, FOO_PASSWORD was then
\* served a value with no further fetch, while the remote store would by
\* now answer with another generation of the secret.
C2_Witness ==
  /\ fetches["secret/foo"] = 1
  /\ Len(fetched["secret/foo"]) = 1
  /\ fetched["secret/foo"][1].by = "FOO_USERNAME"
  /\ call.credential = "FOO_PASSWORD" /\ IsOk(call.result) /\ ~call.fetched
  /\ call.result.v = "p1"
  /\ remote["secret/foo"] = Response(200, SecretBodyExtra(DataGen2))

\* C7: a get for a key that the cached secret of its path lacks fails with
\* the "No key .. in secret .." error, which names the key and the path,
\* invokes no fetch and leaves the cache as it was.
C7_MissingKeyCached ==
  [][\A c \in DOMAIN Secretfile :
       ( /\ IsGetStep /\ call'.credential = c
         /\ LocOf(c).path \in DOMAIN secrets
         /\ LocOf(c).key \notin DOMAIN secrets[LocOf(c).path].data )
       => /\ IsErr(call'.result)
          /\ call'.result.e = NoKeyMsg(LocOf(c).key, LocOf(c).path)
          /\ \E i \in 1..Len(call'.result.e) : call'.result.e[i] = LocOf(c).key
          /\ \E i \in 1..Len(call'.result.e) : call'.result.e[i] = LocOf(c).path
          /\ ~call'.fetched
          /\ fetches' = fetches
          /\ secrets' = secrets]_vars

\* C7 witness: secret/foo is cached without "password" and the last get,
\* for FOO_PASSWORD, was served from the cache and failed.
C7_Witness ==
  /\ call.credential = "FOO_PASSWORD"
  /\ call.hit /\ ~call.fetched
  /\ "secret/foo" \in DOMAIN secrets
  /\ "password" \notin DOMAIN secrets["secret/foo"].data
  /\ call.result = Err(NoKeyMsg("password", "secret/foo"))

\* C8: a get for a name with no Secretfile entry fails with the "No
\* Secretfile entry" error, invokes no fetch and leaves the cache as it was.
C8_UnknownCredential ==
  [][\A c \in CredNames \ DOMAIN Secretfile :
       (IsGetStep /\ call'.credential = c)
       => /\ call'.result = Err(NoEntryMsg(c))
          /\ ~call'.fetched
          /\ fetches' = fetches
          /\ fetched' = fetched
          /\ secrets' = secrets]_vars

\* C8 witness: the last get was for NOSUCHVAR and failed, with one path
\* cached at the time.
C8_Witness ==
  /\ call.credential = "NOSUCHVAR"
  /\ call.result = Err(NoEntryMsg("NOSUCHVAR"))
  /\ DOMAIN secrets = {"secret/foo"}

\* C9: a get for a credential at Keyed(path, key) returns exactly the value
\* under key of the document the remote store sends, when the path is not
\* cached and that document decodes and holds the key, and exactly the
\* value under key of the cached secret, when the path is cached with a
\* secret that holds the key.
C9_ReturnsField ==
  [][\A c \in DOMAIN Secretfile :
       (IsGetStep /\ call'.credential = c)
       => LET p == LocOf(c).path
              k == LocOf(c).key
              resp == remote[p]
          IN
            /\ ( /\ p \notin DOMAIN secrets
                 /\ resp.kind = "response" /\ resp.body.json
                 /\ {"data", "lease_duration"} \subseteq DOMAIN resp.body.obj
                 /\ k \in DOMAIN resp.body.obj.data )
               => call'.result = Ok(resp.body.obj.data[k])
            /\ ( /\ p \in DOMAIN secrets
                 /\ k \in DOMAIN secrets[p].data )
               => call'.result = Ok(secrets[p].data[k])]_vars

\* C9 witness: the scenario of test_get with a password as well, the value
\* read through a fetch, and then a value read from the cache.
C9_Witness ==
  /\ call.credential = "FOO_PASSWORD" /\ call.hit
  /\ call.result = Ok("p2")
  /\ fetched["secret/foo"] # <<>>
  /\ fetched["secret/foo"][1].by = "FOO_USERNAME"

\* C10 as stated: a get whose fetch met a connection failure, a status
\* that is not 2xx or a body that does not decode fails with a fetch
\* error, and no cached secret comes from a response whose status is not
\* 2xx.
C10_NonSuccessFails ==
  /\ (call.fetched /\ ~IsSuccessResponse(call.resp.v)) => IsFetchFailed(call.result)
  /\ \A p \in DOMAIN secrets :
       \A i \in 1..Len(fetched[p]) : IsSuccessStatus(fetched[p][i].status)

C12_CacheMonotonic ==
  [][\A p \in DOMAIN secrets :
       /\ p \in DOMAIN secrets'
       /\ secrets'[p] = secrets[p]]_vars

\* C12 witness: both paths are cached, secret/foo since before the last
\* get, and the remote store would by now answer otherwise for it.
C12_Witness ==
  /\ DOMAIN secrets = Paths
  /\ call.credential = "BAR_USERNAME" /\ call.fetched
  /\ secrets["secret/foo"].lease_duration = LeaseDuration
  /\ remote["secret/foo"].kind = "response"
  /\ remote["secret/foo"].body # SecretBody(secrets["secret/foo"].data)

\* C17: a get that reaches the read of the cache finds the path of its
\* credential in the cache, so the unwrap does not panic.
C17_ReadFindsPath ==
  [][\A c \in DOMAIN Secretfile :
       (IsGetStep /\ call'.credential = c /\ call'.read)
       => /\ LocOf(c).path \in DOMAIN secrets'
          /\ call'.result.tag # "Panic"
          /\ call'.hit <=> LocOf(c).path \in DOMAIN secrets
          /\ call'.fetched <=> LocOf(c).path \notin DOMAIN secrets]_vars

\* C17 witness: a get fetched its path and then read it from the cache.
C17_Witness ==
  /\ call.read /\ call.fetched /\ ~call.hit
  /\ call.credential = "BAR_USERNAME"
  /\ IsOk(call.result)
  /\ "secret/bar" \in DOMAIN secrets

\* The last get invoked get_secret and get_secret failed.
LastFetchFailed == call.fetched /\ ~call.read

\* C18: a get whose fetch fails leaves the cache as it was, and when the
\* next get is for a credential under the same path it invokes get_secret
\* for that path again.
C18_FailureNotCached ==
  [][/\ ((call' # call \/ fetches' # fetches) /\ call'.fetched /\ ~call'.read)
        => (secrets' = secrets /\ fetched' = fetched /\ IsFetchFailed(call'.result))
     /\ \A c \in DOMAIN Secretfile :
          ( /\ LastFetchFailed
            /\ call' # call \/ fetches' # fetches
            /\ call'.credential = c
            /\ LocOf(c).path = LocOf(call.credential).path )
          => /\ call'.fetched
             /\ fetches'[LocOf(c).path] = fetches[LocOf(c).path] + 1]_vars

\* C18 witness: a fetch of secret/foo failed and a later get, for
\* FOO_PASSWORD, fetched the path again, with success.
C18_Witness ==
  /\ fetches["secret/foo"] = 2
  /\ Len(fetched["secret/foo"]) = 1
  /\ fetched["secret/foo"][1].by = "FOO_PASSWORD"
  /\ call.credential = "FOO_PASSWORD" /\ call.fetched /\ call.read

\* The paths of the locations of the Secretfile.
SecretfilePaths == {LocOf(c).path : c \in DOMAIN Secretfile}

\* C19: a step invokes get_secret at most once in all, and only for the
\* path of the credential of the get; it changes the cache under no other
\* path; and every cached path is the path of a Secretfile location.
C19_OnlyOwnPath ==
  /\ [](DOMAIN secrets \subseteq SecretfilePaths)
  /\ [][\A p \in Paths :
           /\ fetches'[p] \in {fetches[p], fetches[p] + 1}
           /\ fetches'[p] # fetches[p] =>
                /\ \A q \in Paths \ {p} : fetches'[q] = fetches[q]
                /\ call'.credential \in DOMAIN Secretfile
                /\ LocOf(call'.credential).path = p
           /\ ( \/ (p \in DOMAIN secrets') # (p \in DOMAIN secrets)
                \/ (p \in DOMAIN secrets /\ p \in DOMAIN secrets'
                      /\ secrets'[p] # secrets[p]) )
              => /\ call'.credential \in DOMAIN Secretfile
                 /\ LocOf(call'.credential).path = p
                 /\ fetches'[p] = fetches[p] + 1]_vars

\* C19 witness: with secret/foo cached, a get for BAR_USERNAME fetched
\* secret/bar once and secret/foo was fetched once in all.
C19_Witness ==
  /\ call.credential = "BAR_USERNAME" /\ call.fetched /\ call.read
  /\ DOMAIN secrets = Paths
  /\ fetches = [p \in Paths |-> 1]
  /\ fetched["secret/foo"][1].by = "FOO_PASSWORD"

\* What a get for a credential returns from a given secret of its path.
OutcomeFrom(secret, c) ==
  IF LocOf(c).key \in DOMAIN secret.data
    THEN Ok(secret.data[LocOf(c).key])
    ELSE Err(NoKeyMsg(LocOf(c).key, LocOf(c).path))

\* C20: the first secret fetched for a path never changes afterwards, and
\* every get for a credential under a cached path returns what that first
\* secret gives for its key, a value or the missing-key error: so all such
\* gets for one name return the same, whatever the remote store answers
\* by then and whatever gets come in between.
C20_OutcomeFixed ==
  /\ [][\A p \in Paths :
           fetched[p] # <<>> => (fetched'[p] # <<>> /\ fetched'[p][1] = fetched[p][1])]_vars
  /\ [][\A c \in DOMAIN Secretfile :
           (IsGetStep /\ call'.credential = c /\ LocOf(c).path \in DOMAIN secrets')
           => /\ fetched'[LocOf(c).path] # <<>>
              /\ call'.result = OutcomeFrom(fetched'[LocOf(c).path][1].secret, c)
              /\ (call.credential = c /\ call.read) => call'.result = call.result]_vars

\* C20 witness: FOO_PASSWORD is refused from the cache, for the cached
\* secret lacks the key, although the remote store would now send a secret
\* that holds it; other gets came in between.
C20_Witness ==
  /\ call.credential = "FOO_PASSWORD" /\ call.hit
  /\ call.result = Err(NoKeyMsg("password", "secret/foo"))
  /\ fetched["secret/foo"][1].by = "FOO_PASSWORD"
  /\ remote["secret/foo"] = Response(200, SecretBody(DataGen1))
  /\ "secret/bar" \in DOMAIN secrets

(* ------------------------------------------------------------------ *)
(* Properties of the chained client                                    *)
(* ------------------------------------------------------------------ *)

\* The number of backends the last call ran over.
NumAnswers == Len(outcomes)

\* Backend i answers the last call with a success, every one before it
\* with a failure.
FirstSuccessAt(i) ==
  /\ i \in 1..NumAnswers
  /\ IsOk(outcomes[i])
  /\ \A j \in 1..(i - 1) : IsErr(outcomes[j])

AllFail == \A j \in 1..NumAnswers : IsErr(outcomes[j])

\* C3: in a var call, when backend i answers with a success and every
\* backend before it with a failure, the call returns the answer of
\* backend i and the var of no backend after i is invoked.
C3_FirstSuccessWins ==
  request.op = "var" =>
    \A i \in 1..NumAnswers :
      FirstSuccessAt(i) =>
        /\ result = outcomes[i]
        /\ \A n \in 1..Len(invoked) : invoked[n].backend <= i

\* C3 witness: the first of three backends succeeded, and a later one
\* would have succeeded with another value.
C3_Witness ==
  /\ request.op = "var" /\ NumAnswers = 3
  /\ FirstSuccessAt(1)
  /\ IsOk(outcomes[2]) /\ outcomes[2] # outcomes[1]
  /\ result = outcomes[1]
  /\ invoked = <<Invocation(1, "var")>>

\* C4: in a var call, when a backend after the first answers with a
\* success and every backend before it with a failure, the call returns
\* that success.
C4_FallbackOnFailure ==
  request.op = "var" =>
    \A i \in 2..NumAnswers :
      FirstSuccessAt(i) => (IsOk(result) /\ result.v = outcomes[i].v)

\* C4 witness: scenario B of the tests, the environment fails for DUMMY
\* and the dummy backend answers "dummy".
C4_Witness ==
  /\ request = [op |-> "var", arg |-> "DUMMY"]
  /\ backends = <<"env", "dummy">>
  /\ NumAnswers = 2
  /\ IsErr(outcomes[1])
  /\ result = Ok("dummy")

\* C5: in a var call over a list that is not empty, when every backend
\* fails the call fails with the error of the last backend of the list.
C5_LastError ==
  (request.op = "var" /\ NumAnswers > 0 /\ AllFail) =>
    /\ IsErr(result)
    /\ result.e = outcomes[NumAnswers].e

\* C5 witness: three backends failed, the first with another error than
\* the last, and the call returned the last one.
C5_Witness ==
  /\ request.op = "var" /\ NumAnswers = 3 /\ AllFail
  /\ outcomes[1].e # outcomes[3].e
  /\ outcomes[2].e # outcomes[3].e
  /\ result = outcomes[3]
  /\ Len(invoked) = 3

\* C6: a var or file call on a client with no backends fails with "No
\* backend available", and a call on a client with backends never returns
\* that error: it returns the answer of the last backend it invoked.
C6_EmptyChain ==
  request.op \in {"var", "file"} =>
    /\ NumAnswers = 0 => (result = Err(NoBackendAvailable) /\ invoked = <<>>)
    /\ NumAnswers > 0 =>
         /\ result # Err(NoBackendAvailable)
         /\ invoked # <<>>
         /\ result = outcomes[invoked[Len(invoked)].backend]

\* C6 witness: a file call on the client as Client::new leaves it.
C6_Witness ==
  /\ request = [op |-> "file", arg |-> "dummy.txt"]
  /\ backends = <<>>
  /\ NumAnswers = 0
  /\ result = Err(NoBackendAvailable)

\* C13: in a var or file call the n-th invocation is of backend n, with
\* the operation of the call, so the backends are invoked in list order
\* from the first and none twice; every invoked backend but the last had
\* failed; and there are no more invocations than backends.
C13_InOrderOnce ==
  request.op \in {"var", "file"} =>
    /\ Len(invoked) <= NumAnswers
    /\ \A n \in 1..Len(invoked) :
         /\ invoked[n] = Invocation(n, request.op)
         /\ n < Len(invoked) => IsErr(outcomes[n])
    /\ NumAnswers > 0 => Len(invoked) >= 1
    /\ (1 <= Len(invoked) /\ Len(invoked) < NumAnswers)
         => IsOk(outcomes[Len(invoked)])

\* C13 witness: a var call over three backends invoked the first two,
\* which failed, and then the third.
C13_Witness ==
  /\ request.op = "var" /\ NumAnswers = 3
  /\ invoked = <<Invocation(1, "var"), Invocation(2, "var"), Invocation(3, "var")>>
  /\ IsErr(outcomes[1]) /\ IsErr(outcomes[2])

\* C14: when Client::default returns a client, its list holds the
\* environment backend first, followed by the Vault backend exactly when
\* Vault is enabled, and nothing else; when Vault is enabled and its
\* construction fails, Client::default fails with the error of that
\* construction.
C14_StandardChain ==
  built.called =>
    /\ built.result.tag = "Ok" =>
         /\ IsOk(built.env)
         /\ built.result.client =
              IF built.enabled THEN <<"env", "vault">> ELSE <<"env">>
    /\ (IsOk(built.env) /\ ~built.enabled) => built.result.tag = "Ok"
    /\ (built.enabled /\ IsOk(built.vault)) => built.result.tag = "Ok"
    /\ (built.enabled /\ IsErr(built.vault)) =>
         /\ built.result.tag = "Err"
         /\ built.result.e = built.vault.e

\* C14 witness: Vault was enabled, its construction failed, and
\* Client::default returned no client.
C14_Witness ==
  /\ built.called /\ built.enabled
  /\ IsErr(built.vault)
  /\ built.result.tag = "Err"
  /\ backends = <<>>

\* list is a prefix of longer.
IsPrefix(list, longer) ==
  /\ Len(list) <= Len(longer)
  /\ \A i \in 1..Len(list) : longer[i] = list[i]

\* C15: a step that changes the list of backends only appends to it and
\* is no var or file call (it leaves the record of the last call as it
\* is); so var and file calls, successful or not, leave the list as it is.
C15_ListFixed ==
  [][/\ backends' # backends =>
          /\ IsPrefix(backends, backends')
          /\ Len(backends') > Len(backends)
          /\ <<request, outcomes, invoked, result>>' = <<request, outcomes, invoked, result>>
     /\ <<request, outcomes, invoked, result>>' # <<request, outcomes, invoked, result>>
          => backends' = backends]_vars

\* C15 witness: after a var call that failed and a file call that
\* succeeded, the list still holds its three backends in the order added.
C15_Witness ==
  /\ backends = <<"env", "vault", "dummy">>
  /\ request = [op |-> "file", arg |-> "dummy.txt"]
  /\ NumAnswers = 3
  /\ result = Ok("dummy2")
  /\ Len(invoked) = 3

\* The backends of a sequence of invocations, in order.
BackendsOf(invs) == [n \in 1..Len(invs) |-> invs[n].backend]

\* C16: a file call invokes only the file operation of backends, and for
\* the answers its backends gave it invokes the backends, and returns the
\* result, that the loop of var does for the same answers.
C16_FileLikeVar ==
  request.op = "file" =>
    LET v == VarLoop(1, NumAnswers, outcomes, LoopStart) IN
      /\ \A n \in 1..Len(invoked) : invoked[n].op = "file"
      /\ BackendsOf(invoked) = BackendsOf(v.invoked)
      /\ result = v.result

\* C16 witness: the file call of the tests, the environment failing and
\* the dummy backend answering "dummy2", with a backend left untried.
C16_Witness ==
  /\ request = [op |-> "file", arg |-> "dummy.txt"]
  /\ backends = <<"env", "dummy", "vault">>
  /\ NumAnswers = 3
  /\ IsErr(outcomes[1])
  /\ result = Ok("dummy2")
  /\ invoked = <<Invocation(1, "file"), Invocation(2, "file")>>

====
